---- MODULE Spec2Model ----
(***************************************************************************)
(* A model of chaos4: the Solver of chaos4/integrators/solver.py (the      *)
(* state-space reduction, the RK4 and Forest-Ruth steps, solve) and the    *)
(* Poincare section of chaos4/viz/plotting.py.                             *)
(*                                                                         *)
(* Numbers.  A float is modelled as an exact rational <<n, d>> in lowest   *)
(* terms with d > 0, or as one of the three non-finite values, written     *)
(* with d = 0: <<1, 0>> is +inf, <<-1, 0>> is -inf and <<0, 0>> is NaN.    *)
(* A finite result whose magnitude exceeds MaxFloat overflows to an        *)
(* infinity of its sign, as a float64 result beyond the largest float      *)
(* does.  Rounding is not modelled.                                        *)
(*                                                                         *)
(* Arrays.  A numpy array of four floats is an object of the heap; a       *)
(* reference is its index.  y + z allocates a new object, y[0:3] += z      *)
(* writes the object y refers to, and states[i] = y copies values.         *)
(***************************************************************************)
EXTENDS Integers, Sequences, FiniteSets, TLC

\* The largest magnitude a finite value may have.
MaxFloat == 4000

\* The largest t_end a caller passes to solve.
MaxEnd == 13

\* The longest trajectory a caller passes to poincare_section.
MaxLen == 3

------------------------------------------------------------------------------
\* Float arithmetic.

Abs(n) == IF n < 0 THEN -n ELSE n

Sign(n) == IF n < 0 THEN -1 ELSE IF n > 0 THEN 1 ELSE 0

RECURSIVE GCD(_, _)
GCD(a, b) == IF b = 0 THEN a ELSE GCD(b, a % b)

NaN == <<0, 0>>

Inf(s) == <<s, 0>>

Flt(n) == <<n, 1>>

IsNaN(a) == a[2] = 0 /\ a[1] = 0

IsInf(a) == a[2] = 0 /\ a[1] # 0

IsFinite(a) == a[2] > 0

\* The float n/d (d > 0): in lowest terms, or an infinity when out of range.
Norm(n, d) ==
    IF Abs(n) > MaxFloat * d THEN Inf(Sign(n))
    ELSE LET g == GCD(Abs(n), d) IN <<n \div g, d \div g>>

Neg(a) == <<-a[1], a[2]>>

Add(a, b) ==
    IF IsNaN(a) \/ IsNaN(b) THEN NaN
    ELSE IF IsInf(a) THEN (IF IsInf(b) /\ b[1] # a[1] THEN NaN ELSE a)
    ELSE IF IsInf(b) THEN b
    ELSE Norm(a[1] * b[2] + b[1] * a[2], a[2] * b[2])

Sub(a, b) == Add(a, Neg(b))

Mul(a, b) ==
    IF IsNaN(a) \/ IsNaN(b) THEN NaN
    ELSE IF IsInf(a) \/ IsInf(b)
         THEN (IF a[1] = 0 \/ b[1] = 0 THEN NaN ELSE Inf(Sign(a[1]) * Sign(b[1])))
    ELSE Norm(a[1] * b[1], a[2] * b[2])

\* float64 division: x/0 is an infinity or NaN (a warning, no exception).
Div(a, b) ==
    IF IsNaN(a) \/ IsNaN(b) THEN NaN
    ELSE IF IsInf(b) THEN (IF IsInf(a) THEN NaN ELSE Flt(0))
    ELSE IF IsInf(a) THEN Inf(IF b[1] < 0 THEN -a[1] ELSE a[1])
    ELSE IF b[1] = 0 THEN (IF a[1] = 0 THEN NaN ELSE Inf(Sign(a[1])))
    ELSE Norm(a[1] * b[2] * Sign(b[1]), a[2] * Abs(b[1]))

\* a < b; every comparison with NaN is false.
Less(a, b) ==
    IF IsNaN(a) \/ IsNaN(b) THEN FALSE
    ELSE IF IsInf(a) THEN a[1] < 0 /\ b # a
    ELSE IF IsInf(b) THEN b[1] > 0
    ELSE a[1] * b[2] < b[1] * a[2]

\* Arrays of four floats, by value.
VAdd(y, z) == [k \in 1..4 |-> Add(y[k], z[k])]

VSub(y, z) == [k \in 1..4 |-> Sub(y[k], z[k])]

VScale(y, c) == [k \in 1..4 |-> Mul(y[k], c)]

VDiv(y, c) == [k \in 1..4 |-> Div(y[k], c)]

VFinite(y) == \A k \in 1..4 : IsFinite(y[k])

Vec(a, b, c, d) == <<Flt(a), Flt(b), Flt(c), Flt(d)>>

------------------------------------------------------------------------------
\* The Solver (chaos4/integrators/solver.py).

\* The snap functions a caller calibrates the solver with: linear_snap is
\* the one of the tests (-x); driven depends on every argument and on t.
SnapFuncs == {"linear_snap", "driven"}

Snap(f, x, v, a, j, t) ==
    IF f = "linear_snap" THEN Neg(x)
    ELSE Sub(Add(t, a), Add(x, Add(v, j)))

\* F applied to the value of v, v being evaluated once.
Bind(v, F(_)) == CHOOSE r \in {F(x) : x \in {v}} : TRUE

\* One entry of the log of what a call did: a snap evaluation (pre: the
\* arguments x, v, a, j; t: the time argument), or a drift or a kick of the
\* symplectic step (dur: its duration; pre, post: the array before, after).
Event(kind, dur, t, pre, post) ==
    [kind |-> kind, dur |-> dur, t |-> t, pre |-> pre, post |-> post]

\* np.array(...), and every array-valued expression: a new object.
Alloc(m, v) ==
    [heap |-> Append(m.heap, v), log |-> m.log, ref |-> Len(m.heap) + 1]

\* A slip in the reduction: the state copied through instead of shifted.
StateDerivativeUnshifted(m, f, y, t) ==
    LET x1 == m.heap[y][1]
        x2 == m.heap[y][2]
        x3 == m.heap[y][3]
        x4 == m.heap[y][4]
    IN  [heap |-> Append(m.heap, <<x1, x2, x3, Snap(f, x1, x2, x3, x4, t)>>),
         log |-> Append(m.log, Event("snap", Flt(0), t, m.heap[y], m.heap[y])),
         ref |-> Len(m.heap) + 1]

\* Solver._state_derivative(y, t)
StateDerivative(m, f, y, t) ==
    LET x1 == m.heap[y][1]
        x2 == m.heap[y][2]
        x3 == m.heap[y][3]
        x4 == m.heap[y][4]
    IN  [heap |-> Append(m.heap, <<x2, x3, x4, Snap(f, x1, x2, x3, x4, t)>>),
         log |-> Append(m.log, Event("snap", Flt(0), t, m.heap[y], m.heap[y])),
         ref |-> Len(m.heap) + 1]

\* Solver.rk4_step(y, t, dt)
Rk4Step(m, f, y, t, dt) ==
    Bind(StateDerivative(m, f, y, t), LAMBDA d1 :
    Bind(Alloc(d1, VAdd(d1.heap[y], VDiv(VScale(d1.heap[d1.ref], dt), Flt(2)))), LAMBDA a2 :
    Bind(StateDerivative(a2, f, a2.ref, Add(t, Div(dt, Flt(2)))), LAMBDA d2 :
    Bind(Alloc(d2, VAdd(d2.heap[y], VDiv(VScale(d2.heap[d2.ref], dt), Flt(2)))), LAMBDA a3 :
    Bind(StateDerivative(a3, f, a3.ref, Add(t, Div(dt, Flt(2)))), LAMBDA d3 :
    Bind(Alloc(d3, VAdd(d3.heap[y], VScale(d3.heap[d3.ref], dt))), LAMBDA a4 :
    Bind(StateDerivative(a4, f, a4.ref, Add(t, dt)), LAMBDA d4 :
        LET k1 == d1.heap[d1.ref]
            k2 == d2.heap[d2.ref]
            k3 == d3.heap[d3.ref]
            k4 == d4.heap[d4.ref]
            ksum == VAdd(VAdd(VAdd(k1, VScale(k2, Flt(2))), VScale(k3, Flt(2))), k4)
        IN  Alloc(d4, VAdd(d4.heap[y], VScale(ksum, Div(dt, Flt(6)))))
    )))))))

\* theta = 1.0 / (2.0 - 2.0**(1.0/3.0)) = 1.3512..., irrational; the rational
\* 4/3 stands for it.
theta == <<4, 3>>

\* y[0:3] += c * y[1:4] on the object y refers to: the right-hand side is
\* evaluated first, so the three additions read the values before the update.
DriftInPlace(m, y, c) ==
    LET v == m.heap[y]
        w == <<Add(v[1], Mul(c, v[2])), Add(v[2], Mul(c, v[3])),
               Add(v[3], Mul(c, v[4])), v[4]>>
    IN  [m EXCEPT !.heap[y] = w,
                  !.log = Append(@, Event("drift", c, Flt(0), v, w))]

\* y[3] += dt_vel * snap_func(y[0], y[1], y[2], y[3], t) on the object y.
KickInPlace(m, f, y, t, dt_vel) ==
    LET v == m.heap[y]
        w == [v EXCEPT ![4] = Add(@, Mul(dt_vel, Snap(f, v[1], v[2], v[3], v[4], t)))]
    IN  [m EXCEPT !.heap[y] = w,
                  !.log = @ \o <<Event("snap", Flt(0), t, v, v),
                                 Event("kick", dt_vel, t, v, w)>>]

\* A slip in the sub-step: the kick taken before the drift.
ForestRuthSubstepKickFirst(m, f, y, t, dt_pos, dt_vel) ==
    Bind(KickInPlace(m, f, y, t, dt_vel), LAMBDA kicked :
    Bind(DriftInPlace(kicked, y, dt_pos), LAMBDA drifted :
        [drifted EXCEPT !.ref = y]))

\* Solver._forest_ruth_substep(y, t, dt_pos, dt_vel): returns y itself.
ForestRuthSubstep(m, f, y, t, dt_pos, dt_vel) ==
    Bind(DriftInPlace(m, y, dt_pos), LAMBDA drifted :
    Bind(KickInPlace(drifted, f, y, t, dt_vel), LAMBDA kicked :
        [kicked EXCEPT !.ref = y]))

\* Solver.symplectic_step(y, t, dt): works on the caller's object, returns it.
SymplecticStep(m, f, y, t, dt) ==
    Bind(ForestRuthSubstep(m, f, y, t,
             Div(Mul(theta, dt), Flt(2)), Mul(theta, dt)), LAMBDA s1 :
    Bind(ForestRuthSubstep(s1, f, s1.ref, Add(t, Mul(theta, dt)),
             Div(Mul(Sub(Flt(1), theta), dt), Flt(2)),
             Mul(Sub(Flt(1), Mul(Flt(2), theta)), dt)), LAMBDA s2 :
    Bind(ForestRuthSubstep(s2, f, s2.ref, Add(t, Mul(Sub(Flt(1), theta), dt)),
             Div(Mul(Sub(Flt(1), theta), dt), Flt(2)), Mul(theta, dt)), LAMBDA s3 :
    Bind(DriftInPlace(s3, s3.ref, Div(Mul(theta, dt), Flt(2))), LAMBDA s4 :
        [s4 EXCEPT !.ref = s3.ref]))))

\* step_func = self.rk4_step if method == 'rk4' else self.symplectic_step
StepFunc(method) == IF method = "rk4" THEN "rk4_step" ELSE "symplectic_step"

\* step_func(y, t, dt)
Step(step_func, m, f, y, t, dt) ==
    IF step_func = "rk4_step" THEN Rk4Step(m, f, y, t, dt)
    ELSE SymplecticStep(m, f, y, t, dt)

\* ceil of the finite float q, as an integer.
Ceil(q) == -((-q[1]) \div q[2])

\* A slip in the length: the quotient rounded down.
ArangeLenFloor(t_start, t_end, dt) ==
    LET q == Div(Sub(t_end, t_start), dt)
        n == q[1] \div q[2]
    IN  IF n < 0 THEN 0 ELSE n

\* len(np.arange(t_start, t_end, dt)) = ceil((t_end - t_start) / dt), or 0
\* when that is negative; dt = 0 makes np.arange raise.
ArangeLen(t_start, t_end, dt) ==
    LET n == Ceil(Div(Sub(t_end, t_start), dt)) IN IF n < 0 THEN 0 ELSE n

\* np.arange(t_start, t_end, dt): the values t_start + k*dt.
Arange(t_start, t_end, dt) ==
    [k \in 1..ArangeLen(t_start, t_end, dt) |-> Add(t_start, Mul(Flt(k - 1), dt))]

\* np.zeros((n, 4))
Zeros(n) == [k \in 1..n |-> Vec(0, 0, 0, 0)]

------------------------------------------------------------------------------
\* The Visualizer (chaos4/viz/plotting.py).

\* The position of states[i][k] in a row of four: Python counts from 0 and a
\* negative k counts from the end; 0 stands for IndexError.
PyIndex(k) ==
    IF k \in 0..3 THEN k + 1 ELSE IF k \in -4..-1 THEN k + 5 ELSE 0

\* A slip in the detection: a state on the threshold counted as a crossing.
StraddlesOrTouches(a, b, crossing_val) ==
    ~Less(Flt(0), Mul(Sub(a, crossing_val), Sub(b, crossing_val)))

\* Intersection detection: (s1[k] - crossing_val) * (s2[k] - crossing_val) < 0
Straddles(a, b, crossing_val) ==
    Less(Mul(Sub(a, crossing_val), Sub(b, crossing_val)), Flt(0))

\* Vector alignment check: direction * (s2[k] - s1[k]) > 0
Aligned(direction, a, b) ==
    Less(Flt(0), Mul(Flt(direction), Sub(b, a)))

\* The body of the loop of Visualizer.poincare_section from pair i on; pts
\* are the points appended so far.
RECURSIVE SectionScan(_, _, _, _, _, _)
SectionScan(rows, plane_idx, crossing_val, direction, i, pts) ==
    IF i > Len(rows) - 1 THEN [outcome |-> "returned", value |-> pts]
    ELSE IF PyIndex(plane_idx) = 0 THEN [outcome |-> "IndexError", value |-> <<>>]
    ELSE
      LET k == PyIndex(plane_idx)
          s1 == rows[i]
          s2 == rows[i + 1]
          t == Div(Sub(crossing_val, s1[k]), Sub(s2[k], s1[k]))
          point == VAdd(s1, VScale(VSub(s2, s1), t))
      IN  IF Straddles(s1[k], s2[k], crossing_val) /\ Aligned(direction, s1[k], s2[k])
          THEN SectionScan(rows, plane_idx, crossing_val, direction, i + 1,
                           Append(pts, point))
          ELSE SectionScan(rows, plane_idx, crossing_val, direction, i + 1, pts)

\* Visualizer.poincare_section(states, plane_idx, crossing_val, direction)
PoincareSection(rows, plane_idx, crossing_val, direction) ==
    SectionScan(rows, plane_idx, crossing_val, direction, 1, <<>>)

------------------------------------------------------------------------------
\* The callers' inputs.

\* Initial states [x, v, a, j]; the third is the one of
\* test_state_space_reduction.
InitialStates ==
    {Vec(1, 0, 0, 0), Vec(0, 1, -1, 2), <<<<1, 1>>, <<1, 2>>, <<1, 5>>, <<1, 10>>>>}

StartTimes == {Flt(0), Flt(6)}

EndTimes == {Flt(-6), Flt(0), Flt(6), Flt(MaxEnd - 1), Flt(MaxEnd)}

StepSizes == {Flt(-6), Flt(0), Flt(6)}

\* "euler" is a method string solve does not know.
Methods == {"rk4", "symplectic", "euler"}

\* Rows of the trajectories handed to poincare_section.
SectionStates == {Vec(0, 0, -1, 0), Vec(0, 0, 1, 0), Vec(1, 2, 0, -2), Vec(-3, 1, 2, 4)}

RECURSIVE SeqsUpTo(_, _)
SeqsUpTo(S, n) ==
    IF n = 0 THEN {<<>>}
    ELSE LET shorter == SeqsUpTo(S, n - 1)
         IN  shorter \cup {Append(q, x) : q \in shorter, x \in S}

Trajectories == SeqsUpTo(SectionStates, MaxLen)

PlaneIndices == {-5, -1, 0, 1, 2, 3, 5}

CrossingVals == {Flt(0), Flt(1)}

Directions == {1, -1}

------------------------------------------------------------------------------
\* The program's state.

VARIABLES
    snap_func,   \* Solver.snap_func
    heap,        \* the array objects, by reference
    log,         \* what the call has done so far: a sequence of Event
    pc,          \* "idle", "solve_loop" (in the loop of solve) or "done"
    call,        \* the call in progress or finished: its name and arguments
    t_values,    \* solve: t_values
    states,      \* solve: states, a matrix of n_steps rows
    step_func,   \* solve: step_func
    y,           \* solve: the reference held by y
    i,           \* solve: the number of iterations of the loop done
    result       \* how the call ended and what it returned

vars == <<snap_func, heap, log, pc, call, t_values, states, step_func, y, i, result>>

solveLocals == <<t_values, states, step_func, y, i>>

NoResult == [outcome |-> "none", value |-> <<>>]

Init ==
    /\ snap_func \in SnapFuncs
    /\ heap = <<>>
    /\ log = <<>>
    /\ pc = "idle"
    /\ call = [op |-> "none"]
    /\ t_values = <<>>
    /\ states = <<>>
    /\ step_func = "none"
    /\ y = 0
    /\ i = 0
    /\ result = NoResult

\* dy = solver._state_derivative(y, t), y being the caller's array heap[1].
CallStateDerivative(y0, t) ==
    /\ pc = "idle"
    /\ \E m \in {StateDerivative([heap |-> <<y0>>, log |-> <<>>, ref |-> 1],
                                 snap_func, 1, t)} :
           /\ heap' = m.heap
           /\ log' = m.log
           /\ result' = [outcome |-> "returned", value |-> m.ref]
    /\ call' = [op |-> "_state_derivative", y |-> 1, before |-> y0, t |-> t]
    /\ pc' = "done"
    /\ UNCHANGED <<snap_func, solveLocals>>

\* y1 = solver.rk4_step(y0, t, dt) or solver.symplectic_step(y0, t, dt), y0
\* being the caller's array heap[1].
CallStep(name, y0, t, dt) ==
    /\ pc = "idle"
    /\ \E m \in {Step(name, [heap |-> <<y0>>, log |-> <<>>, ref |-> 1],
                      snap_func, 1, t, dt)} :
           /\ heap' = m.heap
           /\ log' = m.log
           /\ result' = [outcome |-> "returned", value |-> m.ref]
           /\ call' = [op |-> name, y |-> 1, before |-> y0, t |-> t, dt |-> dt,
                       calls |-> 1, first |-> m.heap[m.ref]]
    /\ pc' = "done"
    /\ UNCHANGED <<snap_func, solveLocals>>

\* The caller steps the same y0 again, with the same t and dt.
StepAgain ==
    /\ pc = "done"
    /\ call.op \in {"rk4_step", "symplectic_step"}
    /\ call.calls = 1
    /\ \E m \in {Step(call.op, [heap |-> heap, log |-> log, ref |-> 0],
                      snap_func, call.y, call.t, call.dt)} :
           /\ heap' = m.heap
           /\ log' = m.log
           /\ result' = [outcome |-> "returned", value |-> m.ref]
    /\ call' = [call EXCEPT !.calls = 2]
    /\ UNCHANGED <<snap_func, pc, solveLocals>>

\* solver.solve(y0, (t_start, t_end), dt, method) up to its loop; y0 is the
\* caller's heap[1], and y = np.array(y0, dtype=float) is a copy of it.
CallSolve(y0, t_start, t_end, dt, method) ==
    /\ pc = "idle"
    /\ call' = [op |-> "solve", y0 |-> y0, t_start |-> t_start, t_end |-> t_end,
                dt |-> dt, method |-> method]
    /\ log' = <<>>
    /\ IF dt = Flt(0)
       THEN /\ result' = [outcome |-> "ZeroDivisionError", value |-> <<>>]
            /\ pc' = "done"
            /\ heap' = <<y0>>
            /\ UNCHANGED solveLocals
       ELSE /\ t_values' = Arange(t_start, t_end, dt)
            /\ states' = Zeros(ArangeLen(t_start, t_end, dt))
            /\ heap' = <<y0, y0>>
            /\ y' = 2
            /\ step_func' = StepFunc(method)
            /\ i' = 0
            /\ pc' = "solve_loop"
            /\ UNCHANGED result
    /\ UNCHANGED snap_func

\* One iteration: states[i] = y; y = step_func(y, t_values[i], dt)
SolveIterate ==
    /\ pc = "solve_loop"
    /\ i < Len(t_values)
    /\ \E m \in {Step(step_func, [heap |-> heap, log |-> log, ref |-> 0],
                      snap_func, y, t_values[i + 1], call.dt)} :
           /\ states' = [states EXCEPT ![i + 1] = heap[y]]
           /\ heap' = m.heap
           /\ log' = m.log
           /\ y' = m.ref
    /\ i' = i + 1
    /\ UNCHANGED <<snap_func, pc, call, t_values, step_func, result>>

\* return t_values, states
SolveReturn ==
    /\ pc = "solve_loop"
    /\ i = Len(t_values)
    /\ result' = [outcome |-> "returned", value |-> <<>>]
    /\ pc' = "done"
    /\ UNCHANGED <<snap_func, heap, log, call, solveLocals>>

\* Visualizer.poincare_section(rows, plane_idx, crossing_val, direction)
CallPoincareSection(rows, plane_idx, crossing_val, direction) ==
    /\ pc = "idle"
    /\ call' = [op |-> "poincare_section", states |-> rows, plane_idx |-> plane_idx,
                crossing_val |-> crossing_val, direction |-> direction]
    /\ result' = PoincareSection(rows, plane_idx, crossing_val, direction)
    /\ pc' = "done"
    /\ UNCHANGED <<snap_func, heap, log, solveLocals>>

Next ==
    \/ \E y0 \in InitialStates, t \in StartTimes : CallStateDerivative(y0, t)
    \/ \E name \in {"rk4_step", "symplectic_step"}, y0 \in InitialStates,
          t \in StartTimes, dt \in StepSizes : CallStep(name, y0, t, dt)
    \/ StepAgain
    \/ \E y0 \in InitialStates, t_start \in StartTimes, t_end \in EndTimes,
          dt \in StepSizes, method \in Methods :
          CallSolve(y0, t_start, t_end, dt, method)
    \/ SolveIterate
    \/ SolveReturn
    \/ \E rows \in Trajectories, plane_idx \in PlaneIndices,
          crossing_val \in CrossingVals, direction \in Directions :
          CallPoincareSection(rows, plane_idx, crossing_val, direction)

Spec == Init /\ [][Next]_vars

------------------------------------------------------------------------------
\* The properties.

Leq(a, b) == a = b \/ Less(a, b)

\* The call ended with an error raised to the caller.  The code has no
\* InvalidParameter or NumericalDivergence class of its own; any exception is
\* counted as the failure a claim asks for.
Raised == result.outcome \notin {"none", "returned"}

InSolve == call.op = "solve"

KnownMethods == {"rk4", "symplectic"}

\* The parameters of solve the specification calls invalid.
BadStepOrSpan == Leq(call.dt, Flt(0)) \/ Leq(call.t_end, call.t_start)

\* C1: solve called with a method that is neither "rk4" nor "symplectic" fails
\* with an error: it never selects one of the two algorithms, and never
\* returns a trajectory.
C1_UnknownMethodRejected ==
    (InSolve /\ call.method \notin KnownMethods) =>
        /\ step_func = "none"
        /\ pc = "done" => Raised

\* C2: solve called with dt <= 0 or t_end <= t_start fails with an error
\* raised before any step is taken (no snap evaluation, no recorded state),
\* and never returns a trajectory, not even an empty one.
C2_BadStepOrSpanRejected ==
    (InSolve /\ BadStepOrSpan) =>
        /\ log = <<>>
        /\ i = 0
        /\ pc = "done" => Raised

\* C3: solve never returns normally with a trajectory that holds a non-finite
\* component: it fails instead.
C3_NoNonFiniteTrajectory ==
    (InSolve /\ result.outcome = "returned") =>
        \A k \in 1..Len(states) : VFinite(states[k])

\* floor of the finite float q.
C4_Floor(q) == q[1] \div q[2]

C4_ValidCall == InSolve /\ Less(call.t_start, call.t_end) /\ Less(Flt(0), call.dt)

C4_Shape(n) ==
    /\ Len(t_values) = n
    /\ Len(states) = n
    /\ \A k \in 1..n : Len(states[k]) = 4

\* C4, as claimed: for t_start < t_end and dt > 0 the number of recorded
\* (time, state) pairs is floor((t_end - t_start) / dt).
C4_CountIsFloor ==
    (C4_ValidCall /\ result.outcome = "returned") =>
        C4_Shape(C4_Floor(Div(Sub(call.t_end, call.t_start), call.dt)))

\* C4, amended: for t_start < t_end and dt > 0 the number n of recorded
\* (time, state) pairs is ceil((t_end - t_start) / dt), that is, the one n
\* with t_start + (n-1)*dt < t_end <= t_start + n*dt; both arrays have
\* length n and every state has 4 components.
C4_CountIsCeil ==
    (C4_ValidCall /\ result.outcome = "returned") =>
        \E n \in 1..(MaxEnd + 6) :
            /\ C4_Shape(n)
            /\ Less(Add(call.t_start, Mul(Flt(n - 1), call.dt)), call.t_end)
            /\ Leq(call.t_end, Add(call.t_start, Mul(Flt(n), call.dt)))

\* A returned trajectory whose span is no multiple of dt.
C4_Witness ==
    /\ C4_ValidCall
    /\ result.outcome = "returned"
    /\ Len(states) = 3
    /\ Sub(call.t_end, call.t_start) # Mul(Flt(2), call.dt)
    /\ Sub(call.t_end, call.t_start) # Mul(Flt(3), call.dt)

InStep == call.op \in {"rk4_step", "symplectic_step"}

\* C5: a step under either algorithm leaves the caller's array unchanged and
\* returns a distinct, freshly computed array; stepping the same array again
\* returns the same result.
C5_StepLeavesInputAlone ==
    (InStep /\ pc = "done") =>
        /\ heap[call.y] = call.before
        /\ result.value # call.y
        /\ call.calls = 2 => heap[result.value] = call.first

InSection == call.op = "poincare_section"

\* The pairs (rows[p], rows[p+1]) that strictly straddle the threshold c in
\* coordinate k (counted from 1) in direction d.
C6_Crossings(rows, k, c, d) ==
    {p \in 1..(Len(rows) - 1) :
        /\ Less(Mul(Sub(rows[p][k], c), Sub(rows[p + 1][k], c)), Flt(0))
        /\ Less(Flt(0), Mul(Flt(d), Sub(rows[p + 1][k], rows[p][k])))}

\* s1 + t * (s2 - s1) with t = (c - s1[k]) / (s2[k] - s1[k])
C6_Interpolate(s1, s2, k, c) ==
    [n \in 1..4 |->
        Add(s1[n], Mul(Div(Sub(c, s1[k]), Sub(s2[k], s1[k])), Sub(s2[n], s1[n])))]

C7_BadIndexRejected ==
    (InSection /\ call.plane_idx \notin 0..3) => Raised

\* One step of the method applied to the state v, by value.
C8_StepValue(method, v, t, dt) ==
    Bind(IF method = "rk4"
         THEN Rk4Step([heap |-> <<v>>, log |-> <<>>, ref |-> 1], snap_func, 1, t, dt)
         ELSE SymplecticStep([heap |-> <<v>>, log |-> <<>>, ref |-> 1], snap_func, 1, t, dt),
         LAMBDA m : m.heap[m.ref])

\* The part of C8 that holds of every call, whatever the sign of dt: the
\* times are t_start + k*dt, each dt after the one before; the first recorded
\* state is the initial state and each later one is one step from the one
\* before it.  Holding in every state of the run, it says that a recorded
\* state is not altered by a later step.
C8_RecordedStatesAreTheSteps ==
    (InSolve /\ call.method \in KnownMethods /\ ~Raised) =>
        /\ \A k \in 1..Len(t_values) :
               t_values[k] = Add(call.t_start, Mul(Flt(k - 1), call.dt))
        /\ \A k \in 1..(Len(t_values) - 1) :
               t_values[k + 1] = Add(t_values[k], call.dt)
        /\ Len(states) = Len(t_values)
        /\ i >= 1 => states[1] = call.y0
        /\ \A k \in 1..(i - 1) :
               states[k + 1] = C8_StepValue(call.method, states[k], t_values[k], call.dt)

\* C8: in the trajectory of solve, for either method: the times are
\* t_start + k*dt and strictly increasing by the fixed step dt; the first
\* recorded state is the initial state, each later one is one step from the
\* one before it, and a recorded state is not altered by a later step.
C8_TrajectoryIsTheSteps ==
    /\ C8_RecordedStatesAreTheSteps
    /\ (InSolve /\ call.method \in KnownMethods /\ ~Raised) =>
           \A k \in 1..(Len(t_values) - 1) : Less(t_values[k], t_values[k + 1])

\* C9: _state_derivative(y, t) returns a new array [v, a, j, snap(x, v, a, j, t)],
\* evaluates the snap function once, on the state and time it was given, and
\* leaves y as it was.
C9_DerivativeIsTheReduction ==
    (call.op = "_state_derivative" /\ pc = "done") =>
        LET b == call.before IN
        /\ result.outcome = "returned"
        /\ heap[result.value]
               = <<b[2], b[3], b[4], Snap(snap_func, b[1], b[2], b[3], b[4], call.t)>>
        /\ result.value # call.y
        /\ heap[call.y] = b
        /\ Len(log) = 1
        /\ log[1].kind = "snap" /\ log[1].pre = b /\ log[1].t = call.t

\* The derivative of the state of test_state_space_reduction.
C9_Witness ==
    /\ call.op = "_state_derivative"
    /\ pc = "done"
    /\ call.before = <<<<1, 1>>, <<1, 2>>, <<1, 5>>, <<1, 10>>>>
    /\ snap_func = "linear_snap"
    /\ heap[result.value] = <<<<1, 2>>, <<1, 5>>, <<1, 10>>, <<-1, 1>>>>

\* The array after a drift of duration c from the array v.
C10_Drifted(v, c) ==
    <<Add(v[1], Mul(c, v[2])), Add(v[2], Mul(c, v[3])), Add(v[3], Mul(c, v[4])), v[4]>>

\* C10: one symplectic step is three drift-then-kick sub-steps and a final
\* drift.  Each drift adds its duration times (v, a, j) to (x, v, a), all
\* three from the values before the drift; each kick evaluates the snap
\* function once, on the drifted state, and changes the jerk alone; the drift
\* durations are (theta/2, (1-theta)/2, (1-theta)/2, theta/2)*dt, the kick
\* durations (theta, 1-2*theta, theta)*dt, and each of the two sums to dt.
C10_SymplecticStepShape ==
    (call.op = "symplectic_step" /\ pc = "done" /\ call.calls = 1) =>
        LET dt == call.dt
            half == Div(theta, Flt(2))
            rest == Div(Sub(Flt(1), theta), Flt(2))
            drifts == <<1, 4, 7, 10>>
            kicks == <<3, 6, 9>>
        IN  /\ [k \in 1..Len(log) |-> log[k].kind]
                   = <<"drift", "snap", "kick", "drift", "snap", "kick",
                       "drift", "snap", "kick", "drift">>
            /\ log[1].pre = call.before
            /\ \A n \in 1..4 :
                   log[drifts[n]].post = C10_Drifted(log[drifts[n]].pre, log[drifts[n]].dur)
            /\ \A n \in 1..3 :
                   LET d == log[drifts[n]]
                       e == log[kicks[n] - 1]
                       c == log[kicks[n]]
                   IN  /\ e.pre = d.post
                       /\ c.pre = d.post
                       /\ c.post = [c.pre EXCEPT ![4] =
                              Add(@, Mul(c.dur, Snap(snap_func, e.pre[1], e.pre[2],
                                                     e.pre[3], e.pre[4], e.t)))]
                       /\ log[drifts[n + 1]].pre = c.post
            /\ heap[result.value] = log[10].post
            /\ [n \in 1..4 |-> log[drifts[n]].dur]
                   = <<Mul(half, dt), Mul(rest, dt), Mul(rest, dt), Mul(half, dt)>>
            /\ [n \in 1..3 |-> log[kicks[n]].dur]
                   = <<Mul(theta, dt), Mul(Sub(Flt(1), Mul(Flt(2), theta)), dt),
                       Mul(theta, dt)>>
            /\ Add(Add(Add(log[1].dur, log[4].dur), log[7].dur), log[10].dur) = dt
            /\ Add(Add(log[3].dur, log[6].dur), log[9].dur) = dt

\* A symplectic step of dt = 6 whose three kicks each changed the jerk.
C10_Witness ==
    /\ call.op = "symplectic_step"
    /\ pc = "done"
    /\ call.calls = 1
    /\ call.dt = Flt(6)
    /\ Len(log) = 10
    /\ \A n \in {3, 6, 9} : log[n].post # log[n].pre

====
